---------------------------- MODULE Spec2Model ----------------------------
(***************************************************************************)
(* Model of the attendance bot (clockinbot.py): the in-memory ledger       *)
(* clock_ins, ACTIVE_DAY, the optional Postgres table attendance_clockins, *)
(* the message and command handlers and the periodic auto_reset_guard.     *)
(*                                                                         *)
(* Texts are TLA+ strings; a character is a string of length 1.  Instants  *)
(* are seconds in UTC counted from midnight (Manila) of calendar day 0     *)
(* minus the zone offset; a Manila datetime is the number of seconds of    *)
(* Manila wall-clock time since that midnight.                             *)
(***************************************************************************)
EXTENDS Integers, Sequences, FiniteSets, TLC

(***************************************************************************)
(* Python str operations used by the program.                              *)
(***************************************************************************)
Ch(s, i) == SubSeq(s, i, i)

UPPERCASE == "ABCDEFGHIJKLMNOPQRSTUVWXYZ"
LOWERCASE == "abcdefghijklmnopqrstuvwxyz"
WHITESPACE == {" ", "\t", "\r", "\n", "\f"}

RECURSIVE find(_, _, _)
\* index of the first occurrence of character c in s at or after i, 0 if none
find(s, c, i) ==
    IF i > Len(s) THEN 0
    ELSE IF Ch(s, i) = c THEN i ELSE find(s, c, i + 1)

lower_ch(c) ==
    LET k == find(UPPERCASE, c, 1) IN IF k = 0 THEN c ELSE Ch(LOWERCASE, k)

upper_ch(c) ==
    LET k == find(LOWERCASE, c, 1) IN IF k = 0 THEN c ELSE Ch(UPPERCASE, k)

RECURSIVE lower(_)
lower(s) == IF s = "" THEN "" ELSE lower_ch(Ch(s, 1)) \o lower(SubSeq(s, 2, Len(s)))

RECURSIVE upper(_)
upper(s) == IF s = "" THEN "" ELSE upper_ch(Ch(s, 1)) \o upper(SubSeq(s, 2, Len(s)))

RECURSIVE replace(_, _)
\* s.replace(c, "") for a single character c
replace(s, c) ==
    IF s = "" THEN ""
    ELSE (IF Ch(s, 1) = c THEN "" ELSE Ch(s, 1)) \o replace(SubSeq(s, 2, Len(s)), c)

RECURSIVE lstrip(_)
lstrip(s) ==
    IF s # "" /\ Ch(s, 1) \in WHITESPACE THEN lstrip(SubSeq(s, 2, Len(s))) ELSE s

RECURSIVE rstrip(_)
rstrip(s) ==
    IF s # "" /\ Ch(s, Len(s)) \in WHITESPACE THEN rstrip(SubSeq(s, 1, Len(s) - 1)) ELSE s

strip(s) == rstrip(lstrip(s))

RECURSIVE split(_, _)
\* s.split(sep) for a single character sep
split(s, sep) ==
    LET k == find(s, sep, 1) IN
    IF k = 0 THEN <<s>>
    ELSE <<SubSeq(s, 1, k - 1)>> \o split(SubSeq(s, k + 1, Len(s)), sep)

startswith(s, p) == Len(s) >= Len(p) /\ SubSeq(s, 1, Len(p)) = p

\* the Python expression: sub in s
contains(s, sub) ==
    \E i \in 1..(Len(s) - Len(sub) + 1) : SubSeq(s, i, i + Len(sub) - 1) = sub

normalize_tag(tag) ==
    replace(replace(replace(replace(replace(lower(tag), " "), "_"), "/"), "&"), "x")


(***************************************************************************)
(* Time.  Manila is UTC+8 all year (PH_TZ).                                *)
(***************************************************************************)
SecondsPerDay == 24 * 3600
ManilaOffset == 8 * 3600

\* dt.astimezone(PH_TZ): the Manila wall-clock reading of a UTC instant
to_ph_time(dt) == dt + ManilaOffset

\* the UTC instant of a Manila wall-clock reading (what TIMESTAMPTZ stores)
to_utc(ph_dt) == ph_dt - ManilaOffset

\* ph_dt.date() and ph_dt.time() of a Manila datetime
DateOf(ph_dt) == ph_dt \div SecondsPerDay
TimeOf(ph_dt) == ph_dt % SecondsPerDay

RESET_TIME_PH == 6 * 3600

\* a cutoff that counts 06:00:00 itself to the day before
attendance_day_for_inclusive(ph_dt) ==
    IF TimeOf(ph_dt) <= RESET_TIME_PH THEN DateOf(ph_dt) - 1 ELSE DateOf(ph_dt)

attendance_day_for(ph_dt) ==
    IF TimeOf(ph_dt) < RESET_TIME_PH THEN DateOf(ph_dt) - 1 ELSE DateOf(ph_dt)

(***************************************************************************)
(* Bounds of the model: the calendar days the clock runs through and the   *)
(* times of day at which something can happen on each of them.             *)
(***************************************************************************)
MaxDay == 1

\* 05:59:59, 06:00:00, 06:00:30 and 06:01:00 Manila time, as seconds of the day
TimesOfDay == <<6 * 3600 - 1, 6 * 3600, 6 * 3600 + 30, 6 * 3600 + 60>>

Instants ==
    { to_utc(d * SecondsPerDay + TimesOfDay[i]) :
        d \in 1..MaxDay, i \in 1..Len(TimesOfDay) }

FirstInstant == CHOOSE t \in Instants : \A u \in Instants : t <= u

HasNextInstant(t) == \E u \in Instants : u > t
NextInstant(t) == CHOOSE u \in Instants : u > t /\ \A w \in Instants : w > t => u <= w

HasPrevInstant(t) == \E u \in Instants : u < t
PrevInstant(t) == CHOOSE u \in Instants : u < t /\ \A w \in Instants : w < t => w <= u

(***************************************************************************)
(* Shifts and pages.  The catalog is a part of RAW_PAGES in catalog order. *)
(***************************************************************************)
SHIFT_TAGS ==
    [clockinprime |-> "prime", clockinmidshift |-> "midshift", clockinclosing |-> "closing"]

Shifts == {"prime", "midshift", "closing"}

RAW_PAGES == << <<"alexis", "Alexis">>, <<"livv", "Livv">>, <<"paris", "Paris">> >>

\* the dict {normalize_tag(k): v}, in insertion order
EXPECTED_PAGES ==
    [i \in 1..Len(RAW_PAGES) |-> <<normalize_tag(RAW_PAGES[i][1]), RAW_PAGES[i][2]>>]

PageKeys == { EXPECTED_PAGES[i][1] : i \in 1..Len(EXPECTED_PAGES) }

PageLabel(key) ==
    EXPECTED_PAGES[CHOOSE i \in 1..Len(EXPECTED_PAGES) : EXPECTED_PAGES[i][1] = key][2]

None == -1


(***************************************************************************)
(* suggest_page: difflib.get_close_matches(input_key, keys, n=1,           *)
(* cutoff=0.7).  The ratio of two strings is 2*M/T, M the number of        *)
(* characters in the matching blocks of SequenceMatcher (the longest       *)
(* common block, then recursively the longest blocks to its left and to    *)
(* its right) and T the sum of the two lengths.  The strings are far       *)
(* shorter than the 200 characters from which difflib treats popular       *)
(* characters as junk.                                                     *)
(***************************************************************************)
RECURSIVE common_run(_, _, _, _, _, _)
\* length of the longest common block that starts at a[i] and b[j]
common_run(a, i, ahi, b, j, bhi) ==
    IF i > ahi \/ j > bhi THEN 0
    ELSE IF Ch(a, i) # Ch(b, j) THEN 0
    ELSE 1 + common_run(a, i + 1, ahi, b, j + 1, bhi)

\* <<i, j, k>>: the longest block a[i..i+k-1] = b[j..j+k-1] within a[alo..ahi] and
\* b[blo..bhi]; of the longest, the one starting earliest in a, then earliest in b
find_longest_match(a, alo, ahi, b, blo, bhi) ==
    LET C == (alo..ahi) \X (blo..bhi)
        K == [p \in C |-> common_run(a, p[1], ahi, b, p[2], bhi)]
        Better(p, q) ==
            \/ K[p] > K[q]
            \/ K[p] = K[q] /\ p[1] < q[1]
            \/ K[p] = K[q] /\ p[1] = q[1] /\ p[2] <= q[2]
    IN  IF C = {} THEN <<alo, blo, 0>>
        ELSE LET best == CHOOSE p \in C : \A q \in C : Better(p, q)
             IN  <<best[1], best[2], K[best]>>

RECURSIVE matching_chars(_, _, _, _, _, _)
\* the sum of the sizes of get_matching_blocks()
matching_chars(a, alo, ahi, b, blo, bhi) ==
    LET m == find_longest_match(a, alo, ahi, b, blo, bhi) IN
    IF m[3] = 0 THEN 0
    ELSE m[3] + matching_chars(a, alo, m[1] - 1, b, blo, m[2] - 1)
              + matching_chars(a, m[1] + m[3], ahi, b, m[2] + m[3], bhi)

\* <<2*M, T>>: SequenceMatcher(a=x, b=word).ratio() as a fraction
ratio(x, word) ==
    <<2 * matching_chars(x, 1, Len(x), word, 1, Len(word)), Len(x) + Len(word)>>

\* ratio >= 0.7
clears_cutoff(r) == r[2] > 0 /\ 10 * r[1] >= 7 * r[2]

CHAR_ORDER == "0123456789ABCDEFGHIJKLMNOPQRSTUVWXYZ_abcdefghijklmnopqrstuvwxyz"

RECURSIVE str_less(_, _)
\* x < y on Python strings
str_less(x, y) ==
    IF y = "" THEN FALSE
    ELSE IF x = "" THEN TRUE
    ELSE IF Ch(x, 1) = Ch(y, 1) THEN str_less(SubSeq(x, 2, Len(x)), SubSeq(y, 2, Len(y)))
    ELSE find(CHAR_ORDER, Ch(x, 1), 1) < find(CHAR_ORDER, Ch(y, 1), 1)

\* the best match, or "" for Python's None
suggest_page(input_key) ==
    LET R == [k \in PageKeys |-> ratio(k, input_key)]
        close == { k \in PageKeys : clears_cutoff(R[k]) }
        \* heapq.nlargest(1, ...) on the pairs (score, key)
        Larger(k, l) ==
            \/ R[k][1] * R[l][2] > R[l][1] * R[k][2]
            \/ R[k][1] * R[l][2] = R[l][1] * R[k][2] /\ (k = l \/ str_less(l, k))
    IN  IF close = {} THEN ""
        ELSE CHOOSE k \in close : \A l \in close : Larger(k, l)

(***************************************************************************)
(* The parser.                                                             *)
(***************************************************************************)
\* [l.strip() for l in text.split("\n") if l.strip()]
stripped_lines(text) ==
    LET raw == split(text, "\n") IN
    SelectSeq([i \in 1..Len(raw) |-> strip(raw[i])], LAMBDA l : l # "")

RECURSIVE scan_tags_first_page(_, _, _, _)
\* a loop that keeps the first page tag it meets
scan_tags_first_page(lines, i, page_key, shift) ==
    IF i > Len(lines) THEN <<page_key, shift>>
    ELSE IF startswith(lines[i], "#")
         THEN LET tag == normalize_tag(SubSeq(lines[i], 2, Len(lines[i]))) IN
              IF tag \in DOMAIN SHIFT_TAGS
              THEN scan_tags_first_page(lines, i + 1, page_key, SHIFT_TAGS[tag])
              ELSE scan_tags_first_page(lines, i + 1, IF page_key = "" THEN tag ELSE page_key,
                                        shift)
         ELSE scan_tags_first_page(lines, i + 1, page_key, shift)

RECURSIVE scan_tags(_, _, _, _)
\* the loop over the lines from line i on; the result is <<page_key, shift>>
scan_tags(lines, i, page_key, shift) ==
    IF i > Len(lines) THEN <<page_key, shift>>
    ELSE IF startswith(lines[i], "#")
         THEN LET tag == normalize_tag(SubSeq(lines[i], 2, Len(lines[i]))) IN
              IF tag \in DOMAIN SHIFT_TAGS
              THEN scan_tags(lines, i + 1, page_key, SHIFT_TAGS[tag])
              ELSE scan_tags(lines, i + 1, tag, shift)
         ELSE scan_tags(lines, i + 1, page_key, shift)

Rejected == [valid |-> FALSE, page_key |-> "", shift |-> ""]

\* parse_clock_in without the test for the CLOCK IN line
parse_clock_in_no_marker(text) ==
    LET r == scan_tags(stripped_lines(text), 1, "", "") IN
    IF r[1] = "" \/ r[2] = "" THEN Rejected
    ELSE [valid |-> TRUE, page_key |-> r[1], shift |-> r[2]]

parse_clock_in(text) ==
    LET lines == stripped_lines(text) IN
    IF ~ \E i \in 1..Len(lines) : upper(lines[i]) = "CLOCK IN" THEN Rejected
    ELSE LET r == scan_tags(lines, 1, "", "") IN
         IF r[1] = "" \/ r[2] = "" THEN Rejected
         ELSE [valid |-> TRUE, page_key |-> r[1], shift |-> r[2]]

\* any(tag in text for tag in SHIFT_TAGS), text the lower-cased message
mentions_shift_tag(text) == \E tag \in DOMAIN SHIFT_TAGS : contains(lower(text), tag)


(***************************************************************************)
(* Inputs of the model.                                                    *)
(***************************************************************************)
Texts ==
    { "CLOCK IN\n#clockinprime\n#paris",
      " clock in \n#ClockInPrime\n\n#Paris",
      "#pariss\n#clockinprime\nCLOCK IN",
      "CLOCK IN\n#clockinprime\n#zzz",
      "#clockinprime\n#paris",
      "CLOCK IN\nclockinprime\n#paris",
      "CLOCK IN\n#paris",
      "CLOCK IN\n#clockinprime",
      "CLOCK IN\n#clockinprime\n#cover\n#paris",
      "CLOCK IN\n#clockinprime\n#paris\n#cover",
      "CLOCK IN\n#clockin_prime\n#paris",
      "good morning" }

Users == {"ann", "bob"}

\* the senders of cover commands; a cover command is handled as soon as it is sent
CoverUsers == {"ann"}

\* context.args of a cover command
CoverArgs == { <<>>, <<"Paris">>, <<"nope">> }

\* the number of events of one behaviour: the messages and commands delivered, the
\* restarts of the process and the outages of the database server
MaxEvents == 2

\* a parse that replaces an unknown page key by the suggested catalog key
Parsed_autocorrect ==
    [text \in Texts |->
        LET p == parse_clock_in(text) IN
        IF p.valid /\ p.page_key \notin PageKeys /\ suggest_page(p.page_key) # ""
        THEN [p EXCEPT !.page_key = suggest_page(p.page_key)]
        ELSE p]

\* what the handlers compute from a text or an argument alone, computed once
Parsed == [text \in Texts |-> parse_clock_in(text)]
Mentions == [text \in Texts |-> mentions_shift_tag(text)]
Suggested == [text \in Texts |-> suggest_page(Parsed[text].page_key)]
CoverKey == [args \in CoverArgs \ {<<>>} |-> normalize_tag(args[1])]

\* update.message.date of an update handled at instant t: the message was sent at t,
\* or one instant earlier and is handled late
MessageDates(t) == {t} \cup (IF HasPrevInstant(t) THEN {PrevInstant(t)} ELSE {})

(***************************************************************************)
(* State.                                                                  *)
(***************************************************************************)
VARIABLES
    now,                  \* the wall clock, a UTC instant
    BOT_START_TIME,       \* the instant at which the running process started
    ACTIVE_DAY,
    last_reset_day,       \* _last_reset_day
    clock_ins,            \* shift -> page_key -> [users, covers : name -> Manila datetime]
    DB_ENABLED,
    db_up,                \* whether statements on conn succeed
    attendance_clockins,  \* the table: primary key -> ph_ts (a UTC instant)
    events,               \* the number of events so far
    op                    \* the last handler, check or start: where it returned, its replies

vars == <<now, BOT_START_TIME, ACTIVE_DAY, last_reset_day, clock_ins, DB_ENABLED, db_up,
          attendance_clockins, events, op>>

ph_now == to_ph_time(now)

EmptyDict == [k \in {} |-> 0]

\* an assignment that keeps the value of a key the dict already has
put_if_absent(d, k, v) == d @@ (k :> v)

\* the value of a dict after d[k] = v
put(d, k, v) == (k :> v) @@ d

EmptyPage == [users |-> EmptyDict, covers |-> EmptyDict]

init_page(ci, shift, page_key) ==
    IF page_key \in DOMAIN ci[shift] THEN ci
    ELSE [ci EXCEPT ![shift] = put(@, page_key, EmptyPage)]

clear_all_shifts == [s \in Shifts |-> EmptyDict]

(***************************************************************************)
(* The table attendance_clockins.  A row is its primary key                *)
(* <<attendance_day, shift, page_key, user_name, is_cover>> with its ph_ts.*)
(* Each operation yields whether it raised and the value it leaves.        *)
(***************************************************************************)
\* an insert that leaves the row alone on a conflict
db_upsert_insert_only(table, enabled, up, att_day, shift, page_key, user_name, is_cover, ph_ts) ==
    IF ~enabled THEN [raised |-> FALSE, table |-> table]
    ELSE IF ~up THEN [raised |-> TRUE, table |-> table]
    ELSE [raised |-> FALSE,
          table |-> table @@ (<<att_day, shift, page_key, user_name, is_cover>> :> to_utc(ph_ts))]

\* an upsert that stores the row under the calendar date of its timestamp
db_upsert_calendar_date(table, enabled, up, att_day, shift, page_key, user_name, is_cover, ph_ts) ==
    IF ~enabled THEN [raised |-> FALSE, table |-> table]
    ELSE IF ~up THEN [raised |-> TRUE, table |-> table]
    ELSE [raised |-> FALSE,
          table |-> put(table, <<DateOf(ph_ts), shift, page_key, user_name, is_cover>>,
                        to_utc(ph_ts))]

db_upsert(table, enabled, up, att_day, shift, page_key, user_name, is_cover, ph_ts) ==
    IF ~enabled THEN [raised |-> FALSE, table |-> table]
    ELSE IF ~up THEN [raised |-> TRUE, table |-> table]
    ELSE [raised |-> FALSE,
          table |-> put(table, <<att_day, shift, page_key, user_name, is_cover>>,
                        to_utc(ph_ts))]

\* a delete whose WHERE clause leaves out the day
db_delete_day_any_day(table, enabled, up, att_day, shift) ==
    IF ~enabled THEN [raised |-> FALSE, table |-> table]
    ELSE IF ~up THEN [raised |-> TRUE, table |-> table]
    ELSE LET keep == { k \in DOMAIN table : ~ (shift = "" \/ k[2] = shift) }
         IN  [raised |-> FALSE, table |-> [k \in keep |-> table[k]]]

\* shift = "" is the call without a shift
db_delete_day(table, enabled, up, att_day, shift) ==
    IF ~enabled THEN [raised |-> FALSE, table |-> table]
    ELSE IF ~up THEN [raised |-> TRUE, table |-> table]
    ELSE LET keep == { k \in DOMAIN table :
                         ~ (k[1] = att_day /\ (shift = "" \/ k[2] = shift)) }
         IN  [raised |-> FALSE, table |-> [k \in keep |-> table[k]]]

\* the rows of att_day that the loop of db_load_day does not skip
loadable_rows(table, att_day) ==
    { k \in DOMAIN table : k[1] = att_day /\ k[2] \in Shifts /\ k[3] \in PageKeys }

\* a load that returns before it clears and reads
db_load_day_skip(ci, table, enabled, up, att_day) == [raised |-> FALSE, clock_ins |-> ci]

db_load_day(ci, table, enabled, up, att_day) ==
    IF ~enabled THEN [raised |-> FALSE, clock_ins |-> ci]
    ELSE IF ~up THEN [raised |-> TRUE, clock_ins |-> clear_all_shifts]
    ELSE LET rows == loadable_rows(table, att_day)
             names(s, p, c) == { k[4] : k \in { r \in rows : r[2] = s /\ r[3] = p /\ r[5] = c } }
             dict(s, p, c) == [n \in names(s, p, c) |-> to_ph_time(table[<<att_day, s, p, n, c>>])]
         IN  [raised |-> FALSE,
              clock_ins |->
                [s \in Shifts |->
                    [p \in { k[3] : k \in { r \in rows : r[2] = s } } |->
                        [users |-> dict(s, p, FALSE), covers |-> dict(s, p, TRUE)]]]]

(***************************************************************************)
(* The snapshot of a shift: one row <<tag, label, users, covers, status>>  *)
(* per catalog page, in catalog order.                                     *)
(***************************************************************************)
\* a snapshot that calls a page missing when it has no user, whatever its covers
build_shift_rows_users_only(ci, shift, missing_only) ==
    LET get(key, kind) == IF key \in DOMAIN ci[shift] THEN ci[shift][key][kind] ELSE EmptyDict
        row(i) ==
            LET key == EXPECTED_PAGES[i][1]
                u == Cardinality(DOMAIN get(key, "users"))
                c == Cardinality(DOMAIN get(key, "covers"))
            IN  <<"#" \o key, EXPECTED_PAGES[i][2], u, c,
                  IF u = 0 THEN "missing" ELSE "present">>
    IN  SelectSeq([i \in 1..Len(EXPECTED_PAGES) |-> row(i)],
                  LAMBDA r : ~missing_only \/ r[5] = "missing")

build_shift_rows(ci, shift, missing_only) ==
    LET get(key, kind) == IF key \in DOMAIN ci[shift] THEN ci[shift][key][kind] ELSE EmptyDict
        row(i) ==
            LET key == EXPECTED_PAGES[i][1]
                u == Cardinality(DOMAIN get(key, "users"))
                c == Cardinality(DOMAIN get(key, "covers"))
            IN  <<"#" \o key, EXPECTED_PAGES[i][2], u, c,
                  IF u = 0 /\ c = 0 THEN "missing" ELSE "present">>
    IN  SelectSeq([i \in 1..Len(EXPECTED_PAGES) |-> row(i)],
                  LAMBDA r : ~missing_only \/ r[5] = "missing")

(***************************************************************************)
(* The table of a snapshot: the numbers of its header and the lines shown, *)
(* a line the columns <<tag, label, users, covers, status>> of a row.      *)
(***************************************************************************)
PAGE_SIZE == 12

max(a, b) == IF a >= b THEN a ELSE b
min(a, b) == IF a <= b THEN a ELSE b

\* a clamp without the upper end
clamp_no_upper(n, lo, hi) == max(lo, n)

clamp(n, lo, hi) == max(lo, min(hi, n))

\* seq[start:end] for 0 <= start
slice(seq, start, end) ==
    IF min(start, Len(seq)) >= min(end, Len(seq)) THEN <<>>
    ELSE SubSeq(seq, min(start, Len(seq)) + 1, min(end, Len(seq)))

\* s[:n]
prefix(s, n) == SubSeq(s, 1, min(n, Len(s)))

render_shift_table(rows, title, page, page_size) ==
    LET total == Len(rows)
        total_pages == max(1, (total + page_size - 1) \div page_size)
        pg == clamp(page, 1, total_pages)
        start == (pg - 1) * page_size
        end == min(start + page_size, total)
        shown == slice(rows, start, end)
    IN  [title |-> title, page |-> pg, total_pages |-> total_pages,
         first |-> start + 1, last |-> end, total |-> total,
         lines |-> [i \in 1..Len(shown) |->
                      <<prefix(shown[i][1], 15), prefix(shown[i][2], 24),
                        shown[i][3], shown[i][4], shown[i][5]>>]]

generate_shift_table_page(ci, shift, page, page_size, missing_only) ==
    render_shift_table(build_shift_rows(ci, shift, missing_only),
                       upper(shift) \o (IF missing_only THEN " SHIFT - MISSING PAGES"
                                        ELSE " SHIFT - CLOCK-IN STATUS"),
                       page, page_size)

DIGITS == "0123456789"

RECURSIVE digits_value(_, _)
\* the number written by the decimal digits s, after the digits of value acc; -1 when
\* s has another character
digits_value(s, acc) ==
    IF s = "" THEN acc
    ELSE IF find(DIGITS, Ch(s, 1), 1) = 0 THEN 0 - 1
    ELSE digits_value(SubSeq(s, 2, Len(s)), 10 * acc + find(DIGITS, Ch(s, 1), 1) - 1)

\* int(context.args[0]) inside the try, 1 for no argument or an argument that int()
\* does not take: an optional sign, then decimal digits (the underscores and the
\* digits of other scripts that int() also takes are not among the inputs)
get_page_arg(args) ==
    IF args = <<>> THEN 1
    ELSE LET arg == strip(args[1])
             signed == arg # "" /\ Ch(arg, 1) \in {"+", "-"}
             body == IF signed THEN SubSeq(arg, 2, Len(arg)) ELSE arg
             value == digits_value(body, 0)
         IN  IF body = "" \/ value < 0 THEN 1
             ELSE IF signed /\ Ch(arg, 1) = "-" THEN 0 - value
             ELSE value

(***************************************************************************)
(* An operation's trace in op.                                             *)
(***************************************************************************)
Done(name, exit, replies) == [name |-> name, exit |-> exit, replies |-> replies]

\* one more event of the behaviour
Event ==
    /\ events < MaxEvents
    /\ events' = events + 1


(***************************************************************************)
(* Process start: the module-level initialisation and main() up to the     *)
(* startup reload.  psycopg2.connect raises when the server cannot be      *)
(* reached, so a process with persistence only comes up while db_up.       *)
(***************************************************************************)
\* what earlier runs of the bot, some with another catalog, left in the table; the clock-ins
\* of the day the clock starts in were sent a second before the first instant of the model
InitTables ==
    { EmptyDict,
      (<<0, "prime", "paris", "ann", FALSE>> :> FirstInstant - 1)
        @@ (<<0, "prime", "oldpage", "ann", FALSE>> :> FirstInstant - 1)
        @@ (<<1, "night", "paris", "bob", FALSE>> :> NextInstant(FirstInstant)) }

Init ==
    /\ now = FirstInstant
    /\ DB_ENABLED \in BOOLEAN
    /\ db_up = TRUE
    /\ attendance_clockins \in (IF DB_ENABLED THEN InitTables ELSE {EmptyDict})
    /\ BOT_START_TIME = now
    /\ last_reset_day = None
    /\ ACTIVE_DAY = attendance_day_for(ph_now)
    /\ clock_ins = db_load_day(clear_all_shifts, attendance_clockins, DB_ENABLED, db_up,
                               ACTIVE_DAY).clock_ins
    /\ events = 0
    /\ op = Done("main", "polling", <<>>)

main ==
    /\ Event
    /\ DB_ENABLED => db_up
    /\ BOT_START_TIME' = now
    /\ last_reset_day' = None
    /\ ACTIVE_DAY' = attendance_day_for(ph_now)
    /\ clock_ins' = db_load_day(clear_all_shifts, attendance_clockins, DB_ENABLED, db_up,
                                attendance_day_for(ph_now)).clock_ins
    /\ op' = Done("main", "polling", <<>>)
    /\ UNCHANGED <<now, DB_ENABLED, db_up, attendance_clockins>>

(***************************************************************************)
(* The handlers.  A handler runs on the event loop without awaiting        *)
(* anything before its reply, so each is one step.  An exception raised by *)
(* a statement on conn ends the handler where it is raised.                *)
(***************************************************************************)

handle_message(text, user, date) ==
    LET p == Parsed[text]
        page_key == p.page_key
        shift == p.shift
        ph_time == to_ph_time(date)
        att_day == attendance_day_for(ph_time)
        ld == IF att_day # ACTIVE_DAY
              THEN db_load_day(clock_ins, attendance_clockins, DB_ENABLED, db_up, att_day)
              ELSE [raised |-> FALSE, clock_ins |-> clock_ins]
        ci == [init_page(ld.clock_ins, shift, page_key)
                 EXCEPT ![shift][page_key].users = put(@, user, ph_time)]
        ups == db_upsert(attendance_clockins, DB_ENABLED, db_up,
                         att_day, shift, page_key, user, FALSE, ph_time)
        suggestion == Suggested[text]
    IN
    /\ Event
    /\ IF date < BOT_START_TIME
       THEN /\ op' = Done("handle_message", "before_start", <<>>)
            /\ UNCHANGED <<ACTIVE_DAY, clock_ins, attendance_clockins>>
       ELSE IF ~Mentions[text]
       THEN /\ op' = Done("handle_message", "no_shift_tag", <<>>)
            /\ UNCHANGED <<ACTIVE_DAY, clock_ins, attendance_clockins>>
       ELSE IF ~p.valid
       THEN /\ op' = Done("handle_message", "not_valid", <<>>)
            /\ UNCHANGED <<ACTIVE_DAY, clock_ins, attendance_clockins>>
       ELSE IF page_key \notin PageKeys
       THEN /\ op' = Done("handle_message", "unknown_page",
                          IF suggestion # "" THEN << <<"did_you_mean", suggestion>> >>
                          ELSE <<>>)
            /\ UNCHANGED <<ACTIVE_DAY, clock_ins, attendance_clockins>>
       ELSE /\ ACTIVE_DAY' = att_day
            /\ IF ld.raised
               THEN /\ clock_ins' = ld.clock_ins
                    /\ op' = Done("handle_message", "raised", <<>>)
                    /\ UNCHANGED attendance_clockins
               ELSE /\ clock_ins' = ci
                    /\ attendance_clockins' = ups.table
                    /\ op' = IF ups.raised THEN Done("handle_message", "raised", <<>>)
                             ELSE Done("handle_message", "replied",
                                       << <<"clocked_in", PageLabel(page_key), shift, user>> >>)
    /\ UNCHANGED <<now, BOT_START_TIME, last_reset_day, DB_ENABLED, db_up>>

cover_clockin(shift, args, user, date) ==
    LET page_key == CoverKey[args]
        ph_time == to_ph_time(date)
        att_day == attendance_day_for(ph_time)
        ld == IF att_day # ACTIVE_DAY
              THEN db_load_day(clock_ins, attendance_clockins, DB_ENABLED, db_up, att_day)
              ELSE [raised |-> FALSE, clock_ins |-> clock_ins]
        ci == [init_page(ld.clock_ins, shift, page_key)
                 EXCEPT ![shift][page_key].covers = put(@, user, ph_time)]
        ups == db_upsert(attendance_clockins, DB_ENABLED, db_up,
                         att_day, shift, page_key, user, TRUE, ph_time)
    IN
    /\ Event
    /\ IF date < BOT_START_TIME \/ args = <<>>
       THEN /\ op' = Done("cover_clockin", "before_start_or_no_args", <<>>)
            /\ UNCHANGED <<ACTIVE_DAY, clock_ins, attendance_clockins>>
       ELSE IF page_key \notin PageKeys
       THEN /\ op' = Done("cover_clockin", "unknown_page", <<>>)
            /\ UNCHANGED <<ACTIVE_DAY, clock_ins, attendance_clockins>>
       ELSE /\ ACTIVE_DAY' = att_day
            /\ IF ld.raised
               THEN /\ clock_ins' = ld.clock_ins
                    /\ op' = Done("cover_clockin", "raised", <<>>)
                    /\ UNCHANGED attendance_clockins
               ELSE /\ clock_ins' = ci
                    /\ attendance_clockins' = ups.table
                    /\ op' = IF ups.raised THEN Done("cover_clockin", "raised", <<>>)
                             ELSE Done("cover_clockin", "replied",
                                       << <<"cover", PageLabel(page_key), shift, user>> >>)
    /\ UNCHANGED <<now, BOT_START_TIME, last_reset_day, DB_ENABLED, db_up>>

\* /reset and /rest
reset ==
    LET del == db_delete_day(attendance_clockins, DB_ENABLED, db_up, ACTIVE_DAY, "") IN
    /\ Event
    /\ clock_ins' = clear_all_shifts
    /\ attendance_clockins' = del.table
    /\ op' = IF del.raised THEN Done("reset", "raised", <<>>)
             ELSE Done("reset", "replied", << <<"all_shifts_reset">> >>)
    /\ UNCHANGED <<now, BOT_START_TIME, ACTIVE_DAY, last_reset_day, DB_ENABLED, db_up>>

\* /resetprime, /resetmidshift and /resetclosing
reset_shift(shift) ==
    LET del == db_delete_day(attendance_clockins, DB_ENABLED, db_up, ACTIVE_DAY, shift) IN
    /\ Event
    /\ clock_ins' = [clock_ins EXCEPT ![shift] = EmptyDict]
    /\ attendance_clockins' = del.table
    /\ op' = IF del.raised THEN Done("reset_shift", "raised", <<>>)
             ELSE Done("reset_shift", "replied", << <<"shift_reset", shift>> >>)
    /\ UNCHANGED <<now, BOT_START_TIME, ACTIVE_DAY, last_reset_day, DB_ENABLED, db_up>>

(***************************************************************************)
(* The periodic check.  The job queue schedules it every 60 seconds on the *)
(* event loop that also runs the handlers, whose database calls block the  *)
(* loop: a run of the check can start late, so the check is enabled at     *)
(* every instant.                                                          *)
(***************************************************************************)
Hour(ph_dt) == TimeOf(ph_dt) \div 3600
Minute(ph_dt) == (TimeOf(ph_dt) % 3600) \div 60

\* the check without the memory of the day it last fired for
auto_reset_guard_no_memo ==
    LET now_ph == ph_now
        today_att_day == attendance_day_for(now_ph)
        ld == db_load_day(clear_all_shifts, attendance_clockins, DB_ENABLED, db_up,
                          today_att_day)
    IN
    /\ IF Hour(now_ph) = 6 /\ Minute(now_ph) = 0
       THEN /\ last_reset_day' = today_att_day
            /\ ACTIVE_DAY' = today_att_day
            /\ clock_ins' = ld.clock_ins
            /\ op' = Done("auto_reset_guard", IF ld.raised THEN "raised" ELSE "reset_done", <<>>)
       ELSE /\ op' = Done("auto_reset_guard", "nothing_to_do", <<>>)
            /\ UNCHANGED <<last_reset_day, ACTIVE_DAY, clock_ins>>
    /\ UNCHANGED <<now, BOT_START_TIME, DB_ENABLED, db_up, attendance_clockins, events>>

auto_reset_guard ==
    LET now_ph == ph_now
        today_att_day == attendance_day_for(now_ph)
        ld == db_load_day(clear_all_shifts, attendance_clockins, DB_ENABLED, db_up,
                          today_att_day)
    IN
    /\ IF Hour(now_ph) = 6 /\ Minute(now_ph) = 0 /\ last_reset_day # today_att_day
       THEN /\ last_reset_day' = today_att_day
            /\ ACTIVE_DAY' = today_att_day
            /\ clock_ins' = ld.clock_ins
            /\ op' = Done("auto_reset_guard", IF ld.raised THEN "raised" ELSE "reset_done", <<>>)
       ELSE /\ op' = Done("auto_reset_guard", "nothing_to_do", <<>>)
            /\ UNCHANGED <<last_reset_day, ACTIVE_DAY, clock_ins>>
    /\ UNCHANGED <<now, BOT_START_TIME, DB_ENABLED, db_up, attendance_clockins, events>>

(***************************************************************************)
(* The environment: the clock, and the database server going away and      *)
(* coming back.                                                            *)
(***************************************************************************)
tick ==
    /\ HasNextInstant(now)
    /\ now' = NextInstant(now)
    /\ UNCHANGED <<BOT_START_TIME, ACTIVE_DAY, last_reset_day, clock_ins, DB_ENABLED, db_up,
                   attendance_clockins, events, op>>

storage_down ==
    /\ Event
    /\ DB_ENABLED /\ db_up
    /\ db_up' = FALSE
    /\ UNCHANGED <<now, BOT_START_TIME, ACTIVE_DAY, last_reset_day, clock_ins, DB_ENABLED,
                   attendance_clockins, op>>

storage_up ==
    /\ DB_ENABLED /\ ~db_up
    /\ db_up' = TRUE
    /\ UNCHANGED <<now, BOT_START_TIME, ACTIVE_DAY, last_reset_day, clock_ins, DB_ENABLED,
                   attendance_clockins, events, op>>

Message == \E text \in Texts, user \in Users, date \in MessageDates(now) :
             handle_message(text, user, date)

Cover == \E shift \in Shifts, args \in CoverArgs, user \in CoverUsers :
           cover_clockin(shift, args, user, now)

ResetShift == \E shift \in Shifts : reset_shift(shift)

Next ==
    \/ Message
    \/ Cover
    \/ reset
    \/ ResetShift
    \/ auto_reset_guard
    \/ main
    \/ tick
    \/ storage_down
    \/ storage_up

Spec == Init /\ [][Next]_vars

\* persistence enabled and the database server always reachable
InitNoOutage == Init /\ DB_ENABLED

NextNoOutage ==
    \/ Message
    \/ Cover
    \/ reset
    \/ ResetShift
    \/ auto_reset_guard
    \/ main
    \/ tick

SpecNoOutage == InitNoOutage /\ [][NextNoOutage]_vars

(***************************************************************************)
(* The parser on its own: parse_clock_in applied to the texts made of up   *)
(* to MaxLines different lines of ParserLines.  op holds the call: the     *)
(* text and the tuple returned.                                            *)
(***************************************************************************)
MaxLines == 4

ParserLines ==
    { " Clock In ", "CLOCK IN now", "#clockinprime", "#Clock_In_Closing", "#paris", "#Livv",
      "#" }

RECURSIVE join(_, _)
\* sep.join(lines)
join(lines, sep) ==
    IF lines = <<>> THEN ""
    ELSE IF Len(lines) = 1 THEN lines[1]
    ELSE lines[1] \o sep \o join(Tail(lines), sep)

ParserTexts ==
    { join(lines, "\n") :
        lines \in { l \in UNION { [1..n -> ParserLines] : n \in 0..MaxLines } :
                      \A i, j \in 1..Len(l) : l[i] = l[j] => i = j } }

\* one call in a behaviour, on the process as it started
call_parse_clock_in(text) ==
    LET p == parse_clock_in(text) IN
    /\ op.name = "main"
    /\ op' = Done("parse_clock_in", IF p.valid THEN "accepted" ELSE "rejected",
                  <<text, p.page_key, p.shift>>)
    /\ UNCHANGED <<now, BOT_START_TIME, ACTIVE_DAY, last_reset_day, clock_ins, DB_ENABLED,
                   db_up, attendance_clockins, events>>

InitParser == Init /\ ~DB_ENABLED

NextParser == \E text \in ParserTexts : call_parse_clock_in(text)

SpecParser == InitParser /\ [][NextParser]_vars

(***************************************************************************)
(* The calendar on its own: attendance_day_for applied to the Manila       *)
(* datetimes of the calendar days 0..MaxDay at every quarter of an hour,   *)
(* and a second before and after the reset time and midnight.  op holds    *)
(* the call: the datetime and the date returned.                           *)
(***************************************************************************)
CalendarTimes ==
    { k * 15 * 60 : k \in 0..(4 * 24 - 1) }
        \cup { 1, RESET_TIME_PH - 1, RESET_TIME_PH + 1, SecondsPerDay - 1 }

CalendarDatetimes == { d * SecondsPerDay + t : d \in 0..MaxDay, t \in CalendarTimes }

\* one call in a behaviour, on the process as it started
call_attendance_day_for(ph_dt) ==
    /\ op.name = "main"
    /\ op' = Done("attendance_day_for", "returned", <<ph_dt, attendance_day_for(ph_dt)>>)
    /\ UNCHANGED <<now, BOT_START_TIME, ACTIVE_DAY, last_reset_day, clock_ins, DB_ENABLED,
                   db_up, attendance_clockins, events>>

InitCalendar == Init /\ ~DB_ENABLED

NextCalendar == \E ph_dt \in CalendarDatetimes : call_attendance_day_for(ph_dt)

SpecCalendar == InitCalendar /\ [][NextCalendar]_vars

(***************************************************************************)
(* The late report: its title, and the fixed text or the blocks that       *)
(* follow it.  A block is <<label, late>>, late the lines of the           *)
(* page: <<name, kind, clock reading>> for every late user and cover.  The *)
(* dicts of the ledger are functions here, so the lines of a page are a    *)
(* set: their order in the message (the order of arrival) is left out.     *)
(***************************************************************************)
SHIFT_CUTOFFS == [prime |-> 8 * 3600, midshift |-> 16 * 3600, closing |-> 0]

\* t.strftime('%I:%M %p') as <<hour of the 12-hour clock, minute, AM or PM>>
strftime(t) ==
    <<IF Hour(t) % 12 = 0 THEN 12 ELSE Hour(t) % 12, Minute(t),
      IF Hour(t) < 12 THEN "AM" ELSE "PM">>

NO_LATE == "No late clock-ins"

\* a report that also lists who clocked in exactly at the cutoff
generate_late_status_inclusive(ci, shift) ==
    LET cutoff == SHIFT_CUTOFFS[shift]
        late(key) ==
            { <<u, "user", strftime(ci[shift][key].users[u])>> :
                u \in { n \in DOMAIN ci[shift][key].users :
                          TimeOf(ci[shift][key].users[n]) >= cutoff } }
            \cup
            { <<c, "cover", strftime(ci[shift][key].covers[c])>> :
                c \in { n \in DOMAIN ci[shift][key].covers :
                          TimeOf(ci[shift][key].covers[n]) >= cutoff } }
        listed == SelectSeq(EXPECTED_PAGES,
                            LAMBDA e : e[1] \in DOMAIN ci[shift] /\ late(e[1]) # {})
        blocks == [i \in 1..Len(listed) |-> <<listed[i][2], late(listed[i][1])>>]
    IN  IF blocks = <<>>
        THEN [title |-> upper(shift) \o " LATE", text |-> NO_LATE, blocks |-> <<>>]
        ELSE [title |-> upper(shift) \o " LATE", text |-> "", blocks |-> blocks]

generate_late_status(ci, shift) ==
    LET cutoff == SHIFT_CUTOFFS[shift]
        late(key) ==
            { <<u, "user", strftime(ci[shift][key].users[u])>> :
                u \in { n \in DOMAIN ci[shift][key].users :
                          TimeOf(ci[shift][key].users[n]) > cutoff } }
            \cup
            { <<c, "cover", strftime(ci[shift][key].covers[c])>> :
                c \in { n \in DOMAIN ci[shift][key].covers :
                          TimeOf(ci[shift][key].covers[n]) > cutoff } }
        listed == SelectSeq(EXPECTED_PAGES,
                            LAMBDA e : e[1] \in DOMAIN ci[shift] /\ late(e[1]) # {})
        blocks == [i \in 1..Len(listed) |-> <<listed[i][2], late(listed[i][1])>>]
    IN  IF blocks = <<>>
        THEN [title |-> upper(shift) \o " LATE", text |-> NO_LATE, blocks |-> <<>>]
        ELSE [title |-> upper(shift) \o " LATE", text |-> "", blocks |-> blocks]

(***************************************************************************)
(* The report commands on their own, on the ledgers of                     *)
(* ReportLedgers: the process has run through one attendance day without   *)
(* persistence and holds clock-ins sent around the cutoff of each shift.   *)
(* A command changes no state; op holds the command and its reply.         *)
(***************************************************************************)
\* the Manila datetime of the attendance day whose time of day is delta seconds after
\* the cutoff of the shift
AroundCutoff(day, shift, delta) ==
    LET tod == (SHIFT_CUTOFFS[shift] + delta) % SecondsPerDay IN
    IF tod >= RESET_TIME_PH THEN day * SecondsPerDay + tod
    ELSE (day + 1) * SecondsPerDay + tod

\* what one shift of the ledger can hold for the pages paris and livv
ShiftLedgers(day, shift) ==
    LET T(delta) == AroundCutoff(day, shift, delta)
        forParis ==
            { EmptyDict,
              ("paris" :> [users |-> ("ann" :> T(0)), covers |-> EmptyDict]),
              ("paris" :> [users |-> ("ann" :> T(0)) @@ ("bob" :> T(1)), covers |-> EmptyDict]) }
        forLivv ==
            { EmptyDict,
              ("livv" :> [users |-> EmptyDict, covers |-> ("bob" :> T(0))]),
              ("livv" :> [users |-> ("ann" :> T(0 - 1)), covers |-> ("bob" :> T(1))]) }
    IN  { a @@ b : a \in forParis, b \in forLivv }

ReportLedgers(day) ==
    { [prime |-> a, midshift |-> b, closing |-> c] :
        a \in ShiftLedgers(day, "prime"), b \in ShiftLedgers(day, "midshift"),
        c \in ShiftLedgers(day, "closing") }

\* /primelate, /midshiftlate and /closinglate
shift_late(shift) ==
    /\ op.name = "main"
    /\ op' = Done(shift \o "late", "replied", <<generate_late_status(clock_ins, shift)>>)
    /\ UNCHANGED <<now, BOT_START_TIME, ACTIVE_DAY, last_reset_day, clock_ins, DB_ENABLED,
                   db_up, attendance_clockins, events>>

\* /late
late ==
    /\ op.name = "main"
    /\ op' = Done("late", "replied",
                  <<generate_late_status(clock_ins, "prime"),
                    generate_late_status(clock_ins, "midshift"),
                    generate_late_status(clock_ins, "closing")>>)
    /\ UNCHANGED <<now, BOT_START_TIME, ACTIVE_DAY, last_reset_day, clock_ins, DB_ENABLED,
                   db_up, attendance_clockins, events>>

\* context.args of the page commands
PageArgs == { <<>>, <<"2">> }

\* /prime, /midshift and /closing
shift_status(shift) ==
    /\ op.name = "main"
    /\ op' = Done(shift, "replied",
                  <<generate_shift_table_page(clock_ins, shift, 1, PAGE_SIZE, FALSE)>>)
    /\ UNCHANGED <<now, BOT_START_TIME, ACTIVE_DAY, last_reset_day, clock_ins, DB_ENABLED,
                   db_up, attendance_clockins, events>>

\* /primepage, /midshiftpage and /closingpage
shift_page(shift, args) ==
    /\ op.name = "main"
    /\ op' = Done(shift \o "page", "replied",
                  <<generate_shift_table_page(clock_ins, shift, get_page_arg(args), PAGE_SIZE,
                                              FALSE)>>)
    /\ UNCHANGED <<now, BOT_START_TIME, ACTIVE_DAY, last_reset_day, clock_ins, DB_ENABLED,
                   db_up, attendance_clockins, events>>

\* /primemissingpage, /midshiftmissingpage and /closingmissingpage
shift_missing_page(shift, args) ==
    /\ op.name = "main"
    /\ op' = Done(shift \o "missingpage", "replied",
                  <<generate_shift_table_page(clock_ins, shift, get_page_arg(args), PAGE_SIZE,
                                              TRUE)>>)
    /\ UNCHANGED <<now, BOT_START_TIME, ACTIVE_DAY, last_reset_day, clock_ins, DB_ENABLED,
                   db_up, attendance_clockins, events>>

InitReports ==
    /\ now = FirstInstant
    /\ DB_ENABLED = FALSE
    /\ db_up = TRUE
    /\ attendance_clockins = EmptyDict
    /\ ACTIVE_DAY = attendance_day_for(ph_now)
    /\ BOT_START_TIME = to_utc(ACTIVE_DAY * SecondsPerDay + RESET_TIME_PH)
    /\ last_reset_day = None
    /\ clock_ins \in ReportLedgers(ACTIVE_DAY)
    /\ events = 0
    /\ op = Done("main", "polling", <<>>)

ShiftLate == \E shift \in Shifts : shift_late(shift)

ShiftStatus == \E shift \in Shifts : shift_status(shift)

ShiftPage == \E shift \in Shifts, args \in PageArgs : shift_page(shift, args)

ShiftMissingPage == \E shift \in Shifts, args \in PageArgs : shift_missing_page(shift, args)

NextReports ==
    \/ ShiftLate
    \/ late
    \/ ShiftStatus
    \/ ShiftPage
    \/ ShiftMissingPage

SpecReports == InitReports /\ [][NextReports]_vars

(***************************************************************************)
(* The table on its own: render_shift_table applied to the snapshots of    *)
(* catalogs of 0..MaxRows pages, with the page number of a page command.   *)
(* op holds the call: the number of rows, the page asked for, the table.   *)
(***************************************************************************)
MaxRows == 25

\* the snapshot of a shift for a catalog of n pages, page i with i users
SampleRows(n) == [i \in 1..n |-> <<"#page", "Page", i, 0, "present">>]

RenderArgs == { <<>>, <<"0">>, <<"-1">>, <<"1">>, <<"+2">>, <<"3">>, <<"99">>, <<"abc">>, <<"-">> }

\* one call in a behaviour, on the process as it started
call_render_shift_table(n, args) ==
    /\ op.name = "main"
    /\ op' = Done("render_shift_table", "returned",
                  <<n, get_page_arg(args),
                    render_shift_table(SampleRows(n), "PRIME SHIFT - CLOCK-IN STATUS",
                                       get_page_arg(args), PAGE_SIZE)>>)
    /\ UNCHANGED <<now, BOT_START_TIME, ACTIVE_DAY, last_reset_day, clock_ins, DB_ENABLED,
                   db_up, attendance_clockins, events>>

InitRender == Init /\ ~DB_ENABLED

NextRender == \E n \in 0..MaxRows, args \in RenderArgs : call_render_shift_table(n, args)

SpecRender == InitRender /\ [][NextRender]_vars

(***************************************************************************)
(* split_for_telegram, which send_long applies to every report, and the    *)
(* function on its own: applied to the texts of up to MaxText characters   *)
(* a, b and newline with a max_len of 1..MaxChunk.  op holds the call: the *)
(* text, max_len and the parts returned.                                   *)
(***************************************************************************)
\* a search that never finds the character
rfind_nothing(s, c, start, end) == 0 - 1

\* s.rfind(c, start, end) for a single character c and 0 <= start: the highest index,
\* counted from 0, of c in s[start:end], -1 if none
rfind(s, c, start, end) ==
    LET at == { i \in start..(min(end, Len(s)) - 1) : Ch(s, i + 1) = c } IN
    IF at = {} THEN 0 - 1 ELSE CHOOSE i \in at : \A j \in at : j <= i

RECURSIVE lstrip_newlines(_)
\* s.lstrip("\n")
lstrip_newlines(s) ==
    IF s # "" /\ Ch(s, 1) = "\n" THEN lstrip_newlines(SubSeq(s, 2, Len(s))) ELSE s

RECURSIVE split_loop(_, _, _)
\* the while loop and the final append
split_loop(text, max_len, parts) ==
    IF Len(text) > max_len
    THEN LET found == rfind(text, "\n", 0, max_len)
             cut == IF found = 0 - 1 THEN max_len ELSE found
         IN  split_loop(lstrip_newlines(SubSeq(text, cut + 1, Len(text))), max_len,
                        Append(parts, SubSeq(text, 1, cut)))
    ELSE Append(parts, text)

split_for_telegram(text, max_len) ==
    IF Len(text) <= max_len THEN <<text>> ELSE split_loop(text, max_len, <<>>)

MaxText == 6
MaxChunk == 3

SplitTexts ==
    { join(chars, "") : chars \in UNION { [1..n -> {"a", "b", "\n"}] : n \in 0..MaxText } }

\* one call in a behaviour, on the process as it started
call_split_for_telegram(text, max_len) ==
    /\ op.name = "main"
    /\ op' = Done("split_for_telegram", "returned",
                  <<text, max_len, split_for_telegram(text, max_len)>>)
    /\ UNCHANGED <<now, BOT_START_TIME, ACTIVE_DAY, last_reset_day, clock_ins, DB_ENABLED,
                   db_up, attendance_clockins, events>>

InitSplit == Init /\ ~DB_ENABLED

NextSplit ==
    \E text \in SplitTexts, max_len \in 1..MaxChunk : call_split_for_telegram(text, max_len)

SpecSplit == InitSplit /\ [][NextSplit]_vars


(***************************************************************************)
(* Vocabulary of the properties.                                           *)
(***************************************************************************)
\* the entries of a ledger: <<shift, page_key, name, is_cover, Manila datetime>>
Entries(ci) ==
    UNION { UNION { { <<s, p, n, FALSE, ci[s][p].users[n]>> : n \in DOMAIN ci[s][p].users }
                      \cup { <<s, p, n, TRUE, ci[s][p].covers[n]>> : n \in DOMAIN ci[s][p].covers }
                    : p \in DOMAIN ci[s] }
            : s \in Shifts }

EntryDay(e) == attendance_day_for(e[5])

\* the attendance day the wall clock is in
Today == attendance_day_for(ph_now)

\* the rows of a table stored under one day
RowsOfDay(table, day) == { k \in DOMAIN table : k[1] = day }

\* the normalized tags of the lines of a text that start with "#", in order
TagsOf(text) ==
    LET tagged == SelectSeq(stripped_lines(text), LAMBDA l : startswith(l, "#"))
    IN  [i \in 1..Len(tagged) |-> normalize_tag(SubSeq(tagged[i], 2, Len(tagged[i])))]

ShiftTagsOf(text) == SelectSeq(TagsOf(text), LAMBDA t : t \in DOMAIN SHIFT_TAGS)
PageTagsOf(text) == SelectSeq(TagsOf(text), LAMBDA t : t \notin DOMAIN SHIFT_TAGS)

\* the texts with a line equal to CLOCK IN, a shift tag, a page tag
MarkerTexts ==
    { text \in Texts :
        \E i \in 1..Len(stripped_lines(text)) : lower(stripped_lines(text)[i]) = "clock in" }
ShiftTagTexts == { text \in Texts : ShiftTagsOf(text) # <<>> }
PageTagTexts == { text \in Texts : PageTagsOf(text) # <<>> }
WellFormedTexts == MarkerTexts \cap ShiftTagTexts \cap PageTagTexts

\* the shift and the page tag of a well-formed text: the last of each
ShiftOf == [text \in WellFormedTexts |->
              SHIFT_TAGS[ShiftTagsOf(text)[Len(ShiftTagsOf(text))]]]
PageTagOf == [text \in WellFormedTexts |-> PageTagsOf(text)[Len(PageTagsOf(text))]]

KnownPageTexts == { text \in WellFormedTexts : PageTagOf[text] \in PageKeys }
UnknownPageTexts == WellFormedTexts \ KnownPageTexts

\* the texts for a catalog page that handle_message takes up: a shift marker is written
\* out in the lower-cased text
HandledTexts == { text \in KnownPageTexts : Mentions[text] }

\* the catalog keys whose similarity to the page tag of a text clears the threshold
CloseKeysOf ==
    [text \in UnknownPageTexts |->
        { k \in PageKeys : clears_cutoff(ratio(k, PageTagOf[text])) }]

(***************************************************************************)
(* C1.  Every timestamp in the in-memory ledger resolves through           *)
(* attendance_day_for to ACTIVE_DAY: the ledger never holds entries of two *)
(* attendance days at once.                                                *)
(***************************************************************************)
C1_LedgerHoldsOneDay == \A e \in Entries(clock_ins) : EntryDay(e) = ACTIVE_DAY

(***************************************************************************)
(* C2.  With persistence enabled, when a clock-in message whose timestamp  *)
(* resolves to another day than ACTIVE_DAY is accepted, then afterwards    *)
(* the ledger and the snapshot of every shift hold only entries of the new *)
(* day (the counts are those of the new day's rows in the table), the      *)
(* rows the table held for every other day are still there with the same   *)
(* timestamps, and the new clock-in is a row of the new day.               *)
(***************************************************************************)
C2_RolloverKeepsOtherDays ==
    [][ \A text \in Texts, user \in Users, date \in MessageDates(now) :
          LET D1 == attendance_day_for(to_ph_time(date))
              count(shift, key, cover) ==
                  Cardinality({ k \in RowsOfDay(attendance_clockins', D1) :
                                  k[2] = shift /\ k[3] = key /\ k[5] = cover })
          IN
          ( /\ handle_message(text, user, date)
            /\ DB_ENABLED
            /\ D1 # ACTIVE_DAY
            /\ op'.exit = "replied" )
          =>
          ( /\ ACTIVE_DAY' = D1
            /\ \A e \in Entries(clock_ins') : EntryDay(e) = D1
            /\ \A shift \in Shifts :
                 LET rows == build_shift_rows(clock_ins', shift, FALSE) IN
                 /\ Len(rows) = Len(EXPECTED_PAGES)
                 /\ \A i \in 1..Len(rows) :
                      /\ rows[i][3] = count(shift, EXPECTED_PAGES[i][1], FALSE)
                      /\ rows[i][4] = count(shift, EXPECTED_PAGES[i][1], TRUE)
            /\ \A k \in DOMAIN attendance_clockins :
                 k[1] # D1 => /\ k \in DOMAIN attendance_clockins'
                              /\ attendance_clockins'[k] = attendance_clockins[k]
            /\ \E k \in RowsOfDay(attendance_clockins', D1) :
                 /\ k[4] = user /\ k[5] = FALSE
                 /\ attendance_clockins'[k] = date
                 /\ <<k[2], k[3], user, FALSE, to_ph_time(date)>> \in Entries(clock_ins') )
      ]_vars

\* a message rolled the ledger over from the day the process started in, for which the
\* table holds a row, to the next day, and recorded the first row of that day
C2_Witness ==
    /\ DB_ENABLED
    /\ op.name = "handle_message" /\ op.exit = "replied"
    /\ last_reset_day = None
    /\ attendance_day_for(to_ph_time(BOT_START_TIME)) = ACTIVE_DAY - 1
    /\ \E k \in RowsOfDay(attendance_clockins, ACTIVE_DAY - 1) : k[2] \in Shifts /\ k[3] \in PageKeys
    /\ Cardinality(RowsOfDay(attendance_clockins, ACTIVE_DAY)) = 1
    /\ Cardinality(Entries(clock_ins)) = 1

(***************************************************************************)
(* C3.  Once the wall clock is in a new attendance day D for which no      *)
(* rollover has fired, a run of auto_reset_guard leaves ACTIVE_DAY = D and *)
(* only entries of day D in the ledger, at whatever second or minute after *)
(* 06:00 it runs.                                                          *)
(***************************************************************************)
C3_CheckRollsOverWheneverItRuns ==
    [][ ( /\ auto_reset_guard
          /\ ACTIVE_DAY # Today
          /\ last_reset_day # Today )
        =>
        ( /\ ACTIVE_DAY' = Today
          /\ \A e \in Entries(clock_ins') : EntryDay(e) = Today )
      ]_vars

(***************************************************************************)
(* C4.  A clock-in of attendance day D that is in the ledger is still in   *)
(* the ledger after a run of auto_reset_guard in day D, with persistence   *)
(* enabled or disabled.                                                    *)
(***************************************************************************)
C4_CheckKeepsTodaysClockIns ==
    [][ auto_reset_guard =>
          \A e \in Entries(clock_ins) : EntryDay(e) = Today => e \in Entries(clock_ins')
      ]_vars


(***************************************************************************)
(* C5.  With persistence enabled and the database server always reachable, *)
(* the in-memory ledger equals the rows of the table stored for ACTIVE_DAY *)
(* with a known shift and a catalog page: the same (shift, page, name,     *)
(* is_cover) keys with the same timestamps, after every operation.         *)
(***************************************************************************)
C5_LedgerIsCacheOfActiveDay ==
    Entries(clock_ins) =
        { <<k[2], k[3], k[4], k[5], to_ph_time(attendance_clockins[k])>> :
            k \in { r \in RowsOfDay(attendance_clockins, ACTIVE_DAY) :
                      r[2] \in Shifts /\ r[3] \in PageKeys } }

\* after a restart the ledger holds the reloaded entries while the table also has a
\* row of the day that the reload skips
C5_Witness ==
    /\ op.name = "main" /\ events > 0
    /\ Entries(clock_ins) # {}
    /\ \E k \in RowsOfDay(attendance_clockins, ACTIVE_DAY) : k[3] \notin PageKeys

(***************************************************************************)
(* C6.  When a storage call fails while a valid clock-in for a catalog     *)
(* page is handled, the event is still recorded in the in-memory ledger    *)
(* under its attendance day and the sender still gets the confirmation.    *)
(***************************************************************************)
C6_StorageFailureIsNotSurfaced ==
    [][ \A text \in HandledTexts, user \in Users, date \in MessageDates(now) :
          ( /\ handle_message(text, user, date)
            /\ date >= BOT_START_TIME
            /\ DB_ENABLED /\ ~db_up )
          =>
          ( /\ <<ShiftOf[text], PageTagOf[text], user, FALSE, to_ph_time(date)>>
                  \in Entries(clock_ins')
            /\ ACTIVE_DAY' = attendance_day_for(to_ph_time(date))
            /\ Len(op'.replies) = 1
            /\ op'.replies[1][1] = "clocked_in" )
      ]_vars

(***************************************************************************)
(* C7.  A run of auto_reset_guard in a day for which it already fired      *)
(* (last_reset_day is that day) leaves ACTIVE_DAY, last_reset_day, the     *)
(* ledger and the table unchanged; and a run that fires moves              *)
(* last_reset_day to a later day than before, so that within one process   *)
(* run the check performs the transition at most once per attendance day.  *)
(***************************************************************************)
C7_CheckFiresOncePerDay ==
    [][ auto_reset_guard =>
          /\ last_reset_day = Today =>
               UNCHANGED <<ACTIVE_DAY, last_reset_day, clock_ins, attendance_clockins>>
          /\ <<ACTIVE_DAY, last_reset_day, clock_ins>>' # <<ACTIVE_DAY, last_reset_day, clock_ins>> =>
               /\ last_reset_day' = Today
               /\ last_reset_day = None \/ last_reset_day < Today
      ]_vars

\* the check has run again within the minute of a boundary for which it had fired,
\* with clock-ins in the ledger
C7_Witness ==
    /\ op.name = "auto_reset_guard" /\ op.exit = "nothing_to_do"
    /\ last_reset_day = Today
    /\ TimeOf(ph_now) \div 60 = RESET_TIME_PH \div 60
    /\ Entries(clock_ins) # {}

(***************************************************************************)
(* C8.  A well-formed clock-in message whose page tag is not in the        *)
(* catalog leaves the ledger, the table and ACTIVE_DAY unchanged, also     *)
(* when suggest_page finds a close catalog key.                            *)
(***************************************************************************)
C8_UnknownPageRecordsNothing ==
    [][ \A text \in UnknownPageTexts, user \in Users, date \in MessageDates(now) :
          handle_message(text, user, date) =>
            UNCHANGED <<clock_ins, attendance_clockins, ACTIVE_DAY>>
      ]_vars

\* a message for an unknown page got a hint naming a catalog key, and no shift of the
\* ledger has an entry under the page tag or under the key of the hint
C8_Witness ==
    /\ op.name = "handle_message" /\ op.exit = "unknown_page"
    /\ Len(op.replies) = 1 /\ op.replies[1][1] = "did_you_mean"
    /\ op.replies[1][2] \in PageKeys
    /\ \A s \in Shifts : op.replies[1][2] \notin DOMAIN clock_ins[s]

(***************************************************************************)
(* C9.  Every well-formed clock-in message whose page tag is not in the    *)
(* catalog gets exactly one reply: the hint naming the suggested key when  *)
(* a suggestion clears the threshold, otherwise a plain 'not recognized'   *)
(* message.                                                                *)
(***************************************************************************)
C9_UnknownPageIsAnswered ==
    [][ \A text \in UnknownPageTexts, user \in Users, date \in MessageDates(now) :
          ( handle_message(text, user, date) /\ date >= BOT_START_TIME )
          =>
          ( /\ Len(op'.replies) = 1
            /\ IF CloseKeysOf[text] # {}
               THEN /\ op'.replies[1][1] = "did_you_mean"
                    /\ op'.replies[1][2] \in CloseKeysOf[text]
               ELSE op'.replies[1][1] = "not_recognized" )
      ]_vars

(***************************************************************************)
(* C10.  A message with no line equal to CLOCK IN, and a message with the  *)
(* marker but without a shift tag or without a page tag, is ignored        *)
(* silently: no reply, and the ledger, the table and ACTIVE_DAY unchanged. *)
(***************************************************************************)
C10_NotAClockInIsIgnored ==
    [][ \A text \in Texts \ WellFormedTexts, user \in Users, date \in MessageDates(now) :
          handle_message(text, user, date) =>
            /\ op'.replies = <<>>
            /\ UNCHANGED <<clock_ins, attendance_clockins, ACTIVE_DAY>>
      ]_vars

\* a message that mentions a shift tag was rejected by the parser while the ledger
\* holds clock-ins
C10_Witness ==
    /\ op.name = "handle_message" /\ op.exit = "not_valid"
    /\ op.replies = <<>>
    /\ Entries(clock_ins) # {}

(***************************************************************************)
(* C11.  When a clock-in is recorded for a name that the ledger already    *)
(* holds for the same day, shift and page, the ledger afterwards has       *)
(* exactly one entry for that name, with the timestamp of the later        *)
(* recording; the user and cover counts of every page and the entries of   *)
(* all other names, pages and shifts are as before.  The same holds for a  *)
(* cover recorded again in the covers map, and for the row of the table    *)
(* when the name already has one: it takes the later timestamp, all other  *)
(* rows stay.                                                              *)
(***************************************************************************)
RecordedBefore(shift, page_key, name, is_cover, day) ==
    \E e \in Entries(clock_ins) :
        /\ <<e[1], e[2], e[3], e[4]>> = <<shift, page_key, name, is_cover>>
        /\ EntryDay(e) = day

OverwritesOneEntry(shift, page_key, name, is_cover, ph_time) ==
    LET same(e) == <<e[1], e[2], e[3], e[4]>> = <<shift, page_key, name, is_cover>> IN
    /\ { e \in Entries(clock_ins') : same(e) } = { <<shift, page_key, name, is_cover, ph_time>> }
    /\ { e \in Entries(clock_ins') : ~same(e) } = { e \in Entries(clock_ins) : ~same(e) }
    /\ \A s \in Shifts :
         build_shift_rows(clock_ins', s, FALSE) = build_shift_rows(clock_ins, s, FALSE)

OverwritesOneRow(key, date) ==
    (DB_ENABLED /\ db_up /\ key \in DOMAIN attendance_clockins)
    => attendance_clockins' = [attendance_clockins EXCEPT ![key] = date]

C11_RecordingTwiceKeepsOneEntry ==
    [][ /\ \A text \in HandledTexts, user \in Users, date \in MessageDates(now) :
             LET ph_time == to_ph_time(date)
                 att_day == attendance_day_for(ph_time)
             IN
             ( handle_message(text, user, date) /\ date >= BOT_START_TIME )
             =>
             ( /\ ( /\ att_day = ACTIVE_DAY
                    /\ RecordedBefore(ShiftOf[text], PageTagOf[text], user, FALSE, att_day) )
                  => OverwritesOneEntry(ShiftOf[text], PageTagOf[text], user, FALSE, ph_time)
               /\ OverwritesOneRow(<<att_day, ShiftOf[text], PageTagOf[text], user, FALSE>>, date) )
        /\ \A shift \in Shifts, args \in CoverArgs \ {<<>>}, user \in CoverUsers :
             LET ph_time == to_ph_time(now)
                 att_day == attendance_day_for(ph_time)
             IN
             ( /\ cover_clockin(shift, args, user, now)
               /\ now >= BOT_START_TIME
               /\ CoverKey[args] \in PageKeys )
             =>
             ( /\ ( /\ att_day = ACTIVE_DAY
                    /\ RecordedBefore(shift, CoverKey[args], user, TRUE, att_day) )
                  => OverwritesOneEntry(shift, CoverKey[args], user, TRUE, ph_time)
               /\ OverwritesOneRow(<<att_day, shift, CoverKey[args], user, TRUE>>, now) )
      ]_vars

\* the process started with the clock-in an earlier run stored for a name, and the only
\* event since is a clock-in of that name for the same day, shift and page: the ledger
\* and the table hold one entry for the name, with the timestamp of the new message
C11_Witness ==
    /\ events = 1
    /\ op = Done("handle_message", "replied", << <<"clocked_in", "Paris", "prime", "ann">> >>)
    /\ ACTIVE_DAY = attendance_day_for(to_ph_time(FirstInstant))
    /\ <<ACTIVE_DAY, "prime", "oldpage", "ann", FALSE>> \in DOMAIN attendance_clockins
    /\ Entries(clock_ins) = { <<"prime", "paris", "ann", FALSE, to_ph_time(FirstInstant)>> }
    /\ attendance_clockins[<<ACTIVE_DAY, "prime", "paris", "ann", FALSE>>] = FirstInstant

(***************************************************************************)
(* C12.  A clock-in message with a '#' line that normalizes to the cover   *)
(* marker, next to a shift tag and the tag of a catalog page, is parsed    *)
(* with the page of the last tag that is neither a shift tag nor the cover *)
(* marker, and is recorded for its sender in the covers map of that page.  *)
(***************************************************************************)
COVER_MARKER == "cover"

\* the tags of a text that are neither shift tags nor the cover marker
PlainTagsOf(text) == SelectSeq(PageTagsOf(text), LAMBDA t : t # COVER_MARKER)

CoverTexts ==
    { text \in WellFormedTexts :
        /\ \E i \in 1..Len(TagsOf(text)) : TagsOf(text)[i] = COVER_MARKER
        /\ PlainTagsOf(text) # <<>> }

CoverPageOf == [text \in CoverTexts |-> PlainTagsOf(text)[Len(PlainTagsOf(text))]]

C12_CoverTagRecordsACover ==
    [][ \A text \in CoverTexts, user \in Users, date \in MessageDates(now) :
          ( /\ handle_message(text, user, date)
            /\ date >= BOT_START_TIME
            /\ CoverPageOf[text] \in PageKeys
            /\ DB_ENABLED => db_up )
          =>
          ( /\ Parsed[text].valid
            /\ Parsed[text].page_key = CoverPageOf[text]
            /\ <<ShiftOf[text], CoverPageOf[text], user, TRUE, to_ph_time(date)>>
                  \in Entries(clock_ins') )
      ]_vars

(***************************************************************************)
(* C13.  parse_clock_in accepts a text if and only if some trimmed         *)
(* non-empty line equals CLOCK IN case-insensitively, at least one '#'     *)
(* line normalizes to a shift-marker tag and at least one other '#' line   *)
(* is a non-shift tag; on acceptance the shift is the one of the last      *)
(* shift tag and the page key is the normalized last non-shift tag, and    *)
(* the result does not depend on the order of the marker line, the shift   *)
(* line and a single page line.  C13_ParserAcceptsIff states this;         *)
(* C13_ParserAcceptsIffLastTagNamed states it with the condition on the    *)
(* non-shift tags that holds: the last of them is not empty.               *)
(***************************************************************************)
HasMarker(text) ==
    \E i \in 1..Len(stripped_lines(text)) : lower(stripped_lines(text)[i]) = "clock in"

Last(seq) == seq[Len(seq)]

\* the text parsed by the call in op, and the tuple the call returned
ParsedText == op.replies[1]
Returned == [valid |-> op.exit = "accepted", page_key |-> op.replies[2], shift |-> op.replies[3]]

ReturnsLastTags(text, accepted) ==
    /\ Returned.valid <=> accepted
    /\ Returned.valid =>
         /\ Returned.shift = SHIFT_TAGS[Last(ShiftTagsOf(text))]
         /\ Returned.page_key = Last(PageTagsOf(text))
    /\ ~Returned.valid => Returned.page_key = "" /\ Returned.shift = ""

\* the texts of three lines: one marker line, one shift line, one page line
IsPlainClockIn(text) ==
    LET lines == stripped_lines(text) IN
    /\ Len(lines) = 3
    /\ Cardinality({ i \in 1..3 : lower(lines[i]) = "clock in" }) = 1
    /\ Len(ShiftTagsOf(text)) = 1
    /\ Len(PageTagsOf(text)) = 1

OrderIndependent(text) ==
    LET lines == stripped_lines(text) IN
    IsPlainClockIn(text) =>
        \A f \in Permutations(1..3) :
            parse_clock_in(join([i \in 1..3 |-> lines[f[i]]], "\n")) = Returned

C13_ParserAcceptsIff ==
    op.name = "parse_clock_in" =>
        /\ ReturnsLastTags(ParsedText,
                           /\ HasMarker(ParsedText)
                           /\ ShiftTagsOf(ParsedText) # <<>>
                           /\ PageTagsOf(ParsedText) # <<>>)
        /\ OrderIndependent(ParsedText)

C13_ParserAcceptsIffLastTagNamed ==
    op.name = "parse_clock_in" =>
        /\ ReturnsLastTags(ParsedText,
                           /\ HasMarker(ParsedText)
                           /\ ShiftTagsOf(ParsedText) # <<>>
                           /\ PageTagsOf(ParsedText) # <<>>
                           /\ Last(PageTagsOf(ParsedText)) # "")
        /\ OrderIndependent(ParsedText)

\* a text of two page tags and a shift tag whose first line is not the marker line was
\* accepted with the last page tag
C13_Witness ==
    /\ op.name = "parse_clock_in" /\ op.exit = "accepted"
    /\ Len(ShiftTagsOf(ParsedText)) = 1
    /\ PageTagsOf(ParsedText) = <<"paris", "livv">>
    /\ ~ startswith(ParsedText, " Clock In ")
    /\ Returned.page_key = "livv"

(***************************************************************************)
(* C14.  attendance_day_for returns the previous calendar date of a Manila *)
(* datetime whose time of day is before 06:00:00 and the datetime's own    *)
(* calendar date otherwise: 05:59:59 gives the previous date and 06:00:00  *)
(* the date itself, and two datetimes of one calendar date on the two      *)
(* sides of the cutoff belong to consecutive attendance days.              *)
(***************************************************************************)
\* the hour, minute and second on the clock of a Manila datetime
Clock(ph_dt) == <<Hour(ph_dt), Minute(ph_dt), ph_dt % 60>>

C14_DayStartsAtSix ==
    op.name = "attendance_day_for" =>
        LET ph_dt == op.replies[1]
            day == op.replies[2]
        IN
        /\ Hour(ph_dt) < 6 => day = DateOf(ph_dt) - 1
        /\ Hour(ph_dt) >= 6 => day = DateOf(ph_dt)
        /\ Clock(ph_dt) = <<5, 59, 59>> => day = DateOf(ph_dt) - 1
        /\ Clock(ph_dt) = <<6, 0, 0>> => day = DateOf(ph_dt)
        /\ \A other \in CalendarDatetimes :
             (DateOf(other) = DateOf(ph_dt) /\ Hour(ph_dt) < 6 /\ Hour(other) >= 6)
             => attendance_day_for(other) = day + 1

\* the function was applied to 06:00:00 of the last calendar day
C14_Witness ==
    /\ op.name = "attendance_day_for"
    /\ Clock(op.replies[1]) = <<6, 0, 0>>
    /\ op.replies[2] = MaxDay

(***************************************************************************)
(* C15.  The late report of a shift lists exactly the users and covers of  *)
(* the shift whose timestamp's time of day is strictly after the shift's   *)
(* cutoff: someone at exactly the cutoff is not listed, someone a second   *)
(* later is; a page without a late person has no block; and the report is  *)
(* the fixed 'no late clock-ins' message exactly when no page has a late   *)
(* person.                                                                 *)
(***************************************************************************)
\* the entries of a shift of the ledger, as <<page_key, name, is_cover>>, whose time of
\* day is delta seconds or more after the cutoff of the shift
AfterCutoff(shift, delta) ==
    { <<e[2], e[3], e[4]>> :
        e \in { x \in Entries(clock_ins) :
                  x[1] = shift /\ TimeOf(x[5]) >= SHIFT_CUTOFFS[shift] + delta } }

\* the <<page_key, name, is_cover>> that the blocks of a report list
ListedIn(report) ==
    UNION { { <<CHOOSE k \in PageKeys : PageLabel(k) = report.blocks[i][1],
                line[1], line[2] = "cover">> : line \in report.blocks[i][2] }
            : i \in 1..Len(report.blocks) }

IsLateReportOf(report, shift) ==
    /\ ListedIn(report) = AfterCutoff(shift, 1)
    /\ report.text = NO_LATE <=> AfterCutoff(shift, 1) = {}
    /\ report.text # NO_LATE => report.text = "" /\ report.blocks # <<>>
    /\ \A i \in 1..Len(report.blocks) : report.blocks[i][2] # {}
    /\ \A i, j \in 1..Len(report.blocks) :
         report.blocks[i][1] = report.blocks[j][1] => i = j

C15_LateIsStrictlyAfterCutoff ==
    /\ \A shift \in Shifts :
         op.name = shift \o "late" => IsLateReportOf(op.replies[1], shift)
    /\ op.name = "late" =>
         /\ IsLateReportOf(op.replies[1], "prime")
         /\ IsLateReportOf(op.replies[2], "midshift")
         /\ IsLateReportOf(op.replies[3], "closing")

\* the prime report lists bob, who clocked in at 08:00:01, and not ann, who clocked in
\* at 08:00:00 for the same page, and has no block for the page whose cover clocked in
\* at 08:00:00
C15_Witness ==
    /\ op.name = "primelate"
    /\ \E e \in Entries(clock_ins) :
         <<e[1], e[2], e[3], e[4]>> = <<"prime", "paris", "ann", FALSE>> /\ Clock(e[5]) = <<8, 0, 0>>
    /\ \E e \in Entries(clock_ins) :
         <<e[1], e[2], e[3], e[4]>> = <<"prime", "livv", "bob", TRUE>> /\ Clock(e[5]) = <<8, 0, 0>>
    /\ op.replies[1].blocks = << <<"Paris", { <<"bob", "user", <<8, 0, "AM">> >> }>> >>

(***************************************************************************)
(* C16.  For every ledger and shift the snapshot has one row per catalog   *)
(* page, in catalog order; a row's user and cover counts are the numbers   *)
(* of distinct names recorded for the page, and the row is marked missing  *)
(* if and only if both counts are 0.  With missing_only set the rows are   *)
(* the missing rows of the full snapshot, in catalog order.  The status    *)
(* commands show these rows.                                               *)
(***************************************************************************)
NamesOf(shift, page_key, is_cover) ==
    { e[3] : e \in { x \in Entries(clock_ins) :
                       x[1] = shift /\ x[2] = page_key /\ x[4] = is_cover } }

IsSnapshotOf(rows, shift) ==
    /\ Len(rows) = Len(RAW_PAGES)
    /\ \A i \in 1..Len(rows) :
         LET key == normalize_tag(RAW_PAGES[i][1]) IN
         /\ rows[i][1] = "#" \o key
         /\ rows[i][2] = RAW_PAGES[i][2]
         /\ rows[i][3] = Cardinality(NamesOf(shift, key, FALSE))
         /\ rows[i][4] = Cardinality(NamesOf(shift, key, TRUE))
         /\ rows[i][5] \in {"missing", "present"}
         /\ rows[i][5] = "missing" <=> (rows[i][3] = 0 /\ rows[i][4] = 0)

C16_SnapshotHasOneRowPerPage ==
    \A shift \in Shifts :
        LET rows == build_shift_rows(clock_ins, shift, FALSE)
            missing == SelectSeq(rows, LAMBDA r : r[5] = "missing")
        IN
        /\ IsSnapshotOf(rows, shift)
        /\ build_shift_rows(clock_ins, shift, TRUE) = missing
        /\ op.name \in {shift, shift \o "page"} => op.replies[1].lines = rows
        /\ op.name = shift \o "missingpage" => op.replies[1].lines = missing

\* the missing pages of prime were asked for while the ledger holds two users for paris
\* and only a cover for livv: the reply shows the one row of the third page
C16_Witness ==
    /\ op.name = "primemissingpage"
    /\ Cardinality(NamesOf("prime", "paris", FALSE)) = 2
    /\ NamesOf("prime", "livv", FALSE) = {} /\ NamesOf("prime", "livv", TRUE) # {}
    /\ op.replies[1].lines = << <<"#aleis", "Alexis", 0, 0, "missing">> >>

(***************************************************************************)
(* C17.  A manual reset touches the active day only.  The reset of one     *)
(* shift empties that shift of the ledger and, when the table can be       *)
(* reached, deletes the rows of (ACTIVE_DAY, that shift); the other shifts *)
(* of the ledger, the rows of every other day and of the other shifts, and *)
(* ACTIVE_DAY are unchanged, and no row is added.  The reset of all shifts *)
(* empties the whole ledger and deletes the rows of ACTIVE_DAY only.       *)
(***************************************************************************)
\* the table after the step is the table before it without its rows of ACTIVE_DAY and
\* of the shift (of every shift when shift is ""), or the same table when the table
\* cannot be reached
DeletesOnly(shift) ==
    LET gone == { k \in DOMAIN attendance_clockins :
                    k[1] = ACTIVE_DAY /\ (shift = "" \/ k[2] = shift) }
    IN
    /\ DOMAIN attendance_clockins' \subseteq DOMAIN attendance_clockins
    /\ \A k \in DOMAIN attendance_clockins \ gone :
         /\ k \in DOMAIN attendance_clockins'
         /\ attendance_clockins'[k] = attendance_clockins[k]
    /\ (DB_ENABLED /\ db_up) => DOMAIN attendance_clockins' \cap gone = {}

C17_ResetTouchesActiveDayOnly ==
    [][ /\ \A shift \in Shifts :
             reset_shift(shift) =>
               /\ { e \in Entries(clock_ins') : e[1] = shift } = {}
               /\ \A s \in Shifts \ {shift} : clock_ins'[s] = clock_ins[s]
               /\ ACTIVE_DAY' = ACTIVE_DAY
               /\ DeletesOnly(shift)
        /\ reset =>
             /\ Entries(clock_ins') = {}
             /\ ACTIVE_DAY' = ACTIVE_DAY
             /\ DeletesOnly("")
      ]_vars

\* prime was reset in the day the process started in, for which the table held prime
\* rows: the ledger and the table still hold the midshift cover of the day, and the
\* table the row of another day
C17_Witness ==
    /\ op = Done("reset_shift", "replied", << <<"shift_reset", "prime">> >>)
    /\ DB_ENABLED
    /\ ACTIVE_DAY = attendance_day_for(to_ph_time(FirstInstant))
    /\ \E k \in DOMAIN attendance_clockins : k[1] # ACTIVE_DAY
    /\ \A k \in RowsOfDay(attendance_clockins, ACTIVE_DAY) : k[2] = "midshift"
    /\ { e[1] : e \in Entries(clock_ins) } = {"midshift"}
    /\ \A e \in Entries(clock_ins) :
         <<ACTIVE_DAY, e[1], e[2], e[3], e[4]>> \in DOMAIN attendance_clockins

(***************************************************************************)
(* C18.  For every page number asked for (0, negative and beyond the last  *)
(* page included) and every number of rows (0 included),                   *)
(* render_shift_table shows a page number within 1..totalPages, where      *)
(* totalPages is the larger of 1 and the number of rows divided by the     *)
(* page size, rounded up: the page asked for when it is in that range, the *)
(* nearest end of the range otherwise; and it shows exactly the rows with  *)
(* the indices from (page-1)*pageSize up to min(page*pageSize, total).     *)
(***************************************************************************)
\* the least k with k * size >= n
CeilDiv(n, size) == CHOOSE k \in 0..n : k * size >= n /\ (k = 0 \/ (k - 1) * size < n)

C18_PageNumberIsClamped ==
    op.name = "render_shift_table" =>
        LET total == op.replies[1]
            asked == op.replies[2]
            table == op.replies[3]
            totalPages == IF CeilDiv(total, PAGE_SIZE) < 1 THEN 1 ELSE CeilDiv(total, PAGE_SIZE)
            from == (table.page - 1) * PAGE_SIZE
            upto == IF table.page * PAGE_SIZE < total THEN table.page * PAGE_SIZE ELSE total
        IN
        /\ table.total_pages = totalPages
        /\ table.page \in 1..totalPages
        /\ asked \in 1..totalPages => table.page = asked
        /\ asked < 1 => table.page = 1
        /\ asked > totalPages => table.page = totalPages
        /\ from <= upto
        /\ table.lines = [i \in 1..(upto - from) |-> SampleRows(total)[from + i]]
        /\ <<table.first, table.last, table.total>> = <<from + 1, upto, total>>

\* a page beyond the last was asked of a snapshot of two full pages and one more row: the
\* table is the third page with its one row
C18_Witness ==
    /\ op.name = "render_shift_table"
    /\ op.replies[1] = 2 * PAGE_SIZE + 1
    /\ op.replies[2] > 3
    /\ op.replies[3].page = 3
    /\ Len(op.replies[3].lines) = 1

(***************************************************************************)
(* C19.  For every text and maximum size, split_for_telegram returns       *)
(* chunks each no longer than the maximum, splits only at line boundaries  *)
(* so that no row is divided between two chunks, and the chunks taken in   *)
(* order contain every line of the input in its original order.            *)
(* C19_SplitKeepsEveryLine states this.  C19_SplitKeepsRowsThatFit states  *)
(* what holds for a maximum of at least 1: the chunks are never longer     *)
(* than the maximum, and when no line of the text is longer than the       *)
(* maximum the splits are at line boundaries and the chunks in order       *)
(* contain every non-empty line of the input in its original order.        *)
(***************************************************************************)
RECURSIVE Flatten(_)
Flatten(seqs) == IF seqs = <<>> THEN <<>> ELSE seqs[1] \o Flatten(Tail(seqs))

LinesOf(text) == split(text, "\n")
RowsOf(text) == SelectSeq(LinesOf(text), LAMBDA l : l # "")

RECURSIVE SplitAtLineBoundaries(_, _)
\* the text is its parts in order, with one or more newlines between two parts and
\* nothing else
SplitAtLineBoundaries(text, parts) ==
    IF Len(parts) = 1 THEN parts[1] = text
    ELSE /\ startswith(text, parts[1])
         /\ LET rest == SubSeq(text, Len(parts[1]) + 1, Len(text)) IN
            /\ rest # "" /\ Ch(rest, 1) = "\n"
            /\ SplitAtLineBoundaries(lstrip_newlines(rest), Tail(parts))

SplitText == op.replies[1]
SplitMax == op.replies[2]
SplitParts == op.replies[3]

RowsUnderOwnDay ==
    \A k \in DOMAIN attendance_clockins :
        k[1] = attendance_day_for(to_ph_time(attendance_clockins[k]))

RecordsInOrder(shift, page_key, name, is_cover, date) ==
    LET ph_time == to_ph_time(date)
        key == <<attendance_day_for(ph_time), shift, page_key, name, is_cover>>
        written == <<shift, page_key, name, is_cover, ph_time>> \in Entries(clock_ins')
        stored == key \in DOMAIN attendance_clockins' /\ attendance_clockins'[key] = date
    IN
    /\ ACTIVE_DAY' = attendance_day_for(ph_time)
    /\ \A e \in Entries(clock_ins') \ Entries(clock_ins) : EntryDay(e) = ACTIVE_DAY'
    /\ \A k \in DOMAIN attendance_clockins' :
         (k \notin DOMAIN attendance_clockins \/ attendance_clockins'[k] # attendance_clockins[k])
         => k = key /\ stored /\ written
    /\ op'.replies # <<>> => written /\ (DB_ENABLED => stored)

C20_HandlersRunAsOneStep ==
    /\ []RowsUnderOwnDay
    /\ [][ /\ \A text \in HandledTexts, user \in Users, date \in MessageDates(now) :
                ( handle_message(text, user, date) /\ date >= BOT_START_TIME )
                => RecordsInOrder(ShiftOf[text], PageTagOf[text], user, FALSE, date)
           /\ \A shift \in Shifts, args \in CoverArgs \ {<<>>}, user \in CoverUsers :
                ( /\ cover_clockin(shift, args, user, now)
                  /\ now >= BOT_START_TIME
                  /\ CoverKey[args] \in PageKeys )
                => RecordsInOrder(shift, CoverKey[args], user, TRUE, now)
          ]_vars

\* after the periodic check had rolled the ledger over to the new day, a clock-in sent
\* before the cutoff was handled: ACTIVE_DAY is back at the day of that clock-in, its row
\* is stored under that day, and the table holds a row of the new day as well
C20_Witness ==
    /\ DB_ENABLED
    /\ op.name = "handle_message" /\ op.exit = "replied"
    /\ last_reset_day = Today
    /\ ACTIVE_DAY = Today - 1
    /\ \E k \in RowsOfDay(attendance_clockins, ACTIVE_DAY) :
         /\ attendance_clockins[k] = PrevInstant(now)
         /\ <<k[2], k[3], k[4], k[5], to_ph_time(PrevInstant(now))>> \in Entries(clock_ins)
    /\ RowsOfDay(attendance_clockins, Today) # {}

(***************************************************************************)
(* C21.  Within one process run ACTIVE_DAY never moves to an earlier       *)
(* attendance day: every step of a handler, a reset or the periodic check  *)
(* that changes ACTIVE_DAY sets it to a later day than before, also when   *)
(* the message it handles was sent before the event handled last.          *)
(***************************************************************************)
C21_ActiveDayNeverMovesBack ==
    [][ ~main => (ACTIVE_DAY' # ACTIVE_DAY => ACTIVE_DAY' > ACTIVE_DAY) ]_vars

(***************************************************************************)
(* C22.  With the storage reachable, every message that parse_clock_in     *)
(* accepts with a page key in the catalog and that was not sent before the *)
(* process start is recorded by handle_message for its sender, also when   *)
(* its shift tag equals a shift marker only after normalization.           *)
(***************************************************************************)
C22_AcceptedClockInIsRecorded ==
    [][ \A text \in Texts, user \in Users, date \in MessageDates(now) :
          ( /\ Parsed[text].valid
            /\ Parsed[text].page_key \in PageKeys
            /\ date >= BOT_START_TIME
            /\ DB_ENABLED => db_up
            /\ handle_message(text, user, date) )
          =>
          <<Parsed[text].shift, Parsed[text].page_key, user, FALSE, to_ph_time(date)>>
              \in Entries(clock_ins')
      ]_vars

=============================================================================
